---- MODULE Spec2Model ----
(***************************************************************************)
(* The Redux state container of app/index.jsx: the todos slice, the ui     *)
(* slice, the TodosCard input field and its addNewTodo handler, and the    *)
(* fire-and-forget hide timers that addNewTodo schedules.                  *)
(*                                                                         *)
(* Strings are sequences of one-character strings.  Time is counted in     *)
(* milliseconds, the resolution of Date.now(); the clock is observed at    *)
(* multiples of HideDelay, and any number of handlers may run at one       *)
(* instant, that is, within one millisecond.                               *)
(***************************************************************************)
EXTENDS Integers, Sequences, FiniteSets

VARIABLES todos, ui, title, now, timers, last

vars == <<todos, ui, title, now, timers, last>>

(* ------------------------------ bounds -------------------------------- *)

\* most tasks held by the collection, and most hide timers pending at once
MaxAdds == 2
\* the clock is observed for MaxTicks steps of HideDelay milliseconds
MaxTicks == 2

(* ----------------------------- constants ------------------------------ *)

\* setTimeout(() => dispatch(hideAddBanner()), 2000)
HideDelay == 2000

\* the last instant of the clock; no timer is scheduled to fire after it
Horizon == MaxTicks * HideDelay

\* white space that String.prototype.trim strips, as far as the inputs use it
WhiteSpace == {" ", "\t", "\n"}

\* the texts typed into the input field: empty, white space only, and two
\* words with white space around them
Inputs == { <<>>, <<" ", "\t">>, <<" ", "a", " ", "b", "\n">> }

(* --------------------------- pure functions --------------------------- *)

\* String.prototype.trim: drop the white space at both ends
RECURSIVE TrimStart(_)
TrimStart(s) ==
    IF s = <<>> THEN <<>>
    ELSE IF Head(s) \in WhiteSpace THEN TrimStart(Tail(s)) ELSE s

RECURSIVE TrimEnd(_)
TrimEnd(s) ==
    IF s = <<>> THEN <<>>
    ELSE IF s[Len(s)] \in WhiteSpace THEN TrimEnd(SubSeq(s, 1, Len(s) - 1)) ELSE s

NoTrim(s) == s

Trim(s) == TrimEnd(TrimStart(s))

Digit(d) == CASE d = 0 -> "0" [] d = 1 -> "1" [] d = 2 -> "2" [] d = 3 -> "3"
              [] d = 4 -> "4" [] d = 5 -> "5" [] d = 6 -> "6" [] d = 7 -> "7"
              [] d = 8 -> "8" [] d = 9 -> "9"

\* Number.prototype.toString: the decimal digits of n >= 0
RECURSIVE ToString(_)
ToString(n) == IF n < 10 THEN <<Digit(n)>> ELSE ToString(n \div 10) \o <<Digit(n % 10)>>

RECURSIVE PadStart(_, _)
PadStart(s, w) == IF Len(s) >= w THEN s ELSE PadStart(<<"0">> \o s, w)

\* Date.prototype.toISOString of the instant ms after the start of the clock,
\* YYYY-MM-DDTHH:mm:ss.sssZ; the clock of the model stays within one hour
ToISOString(ms) ==
    <<"1970-01-01T00:">> \o PadStart(ToString((ms \div 60000) % 60), 2) \o <<":">>
        \o PadStart(ToString((ms \div 1000) % 60), 2) \o <<".">>
        \o PadStart(ToString(ms % 1000), 3) \o <<"Z">>

(* ------------------------------ reducers ------------------------------ *)

\* todosSlice.initialState and uiSlice.initialState
todosInitialState == [items |-> <<>>]
uiInitialState == [darkMode |-> FALSE, showBanner |-> TRUE, showAddBanner |-> FALSE]

\* Array.prototype.find: the first index whose element has the id, 0 if none
FindIndex(items, id) ==
    IF \E i \in DOMAIN items : items[i].id = id
    THEN CHOOSE i \in DOMAIN items :
            /\ items[i].id = id
            /\ \A j \in 1..(i - 1) : items[j].id # id
    ELSE 0

addTodoUnshift(state, payload, clock) ==
    [state EXCEPT !.items =
        <<[id |-> ToString(clock), title |-> payload, done |-> FALSE,
           createdAt |-> ToISOString(clock)]>> \o @]

\* addTodo: push a task whose id and createdAt are read from the clock
addTodo(state, payload, clock) ==
    [state EXCEPT !.items =
        Append(@, [id |-> ToString(clock), title |-> payload, done |-> FALSE,
                   createdAt |-> ToISOString(clock)])]

\* toggleTodo: flip done of the first task with the id, if any
toggleTodo(state, payload) ==
    LET i == FindIndex(state.items, payload)
    IN  IF i = 0 THEN state
        ELSE [state EXCEPT !.items[i].done = ~@]

\* removeTodo: keep the tasks whose id differs
removeTodo(state, payload) ==
    [state EXCEPT !.items = SelectSeq(@, LAMBDA t : t.id # payload)]

\* clearTodos
clearTodos(state) == [state EXCEPT !.items = <<>>]

toggleDarkModeWrongFlag(state) == [state EXCEPT !.showBanner = ~@]

\* toggleDarkMode
toggleDarkMode(state) == [state EXCEPT !.darkMode = ~@]

dismissBannerWrongFlag(state) == [state EXCEPT !.showAddBanner = FALSE]

\* dismissBanner
dismissBanner(state) == [state EXCEPT !.showBanner = FALSE]

\* showAddBanner
showAddBanner(state) == [state EXCEPT !.showAddBanner = TRUE]

hideAddBannerToggle(state) == [state EXCEPT !.showAddBanner = ~@]

hideAddBannerNoop(state) == state

\* hideAddBanner
hideAddBanner(state) == [state EXCEPT !.showAddBanner = FALSE]

setTimeoutDebounced(queue, clock, delay) == <<clock + delay>>

\* setTimeout(callback, delay): one more pending timer, due delay ms from now;
\* equal delays keep the queue in the order of scheduling
setTimeout(queue, clock, delay) == Append(queue, clock + delay)

(* ------------------------------- state -------------------------------- *)

\* the instants at which the model lets a task be added, and the ids they give
Instants == {k * HideDelay : k \in 0..MaxTicks}
Ids == {ToString(t) : t \in Instants}

Init ==
    /\ todos = todosInitialState
    /\ ui = uiInitialState
    /\ title = <<>>
    /\ now = 0
    /\ timers = <<>>
    /\ last = "init"

(* ------------------------------ actions ------------------------------- *)
(* A press is not guarded by what is rendered: the handlers dispatch with   *)
(* the id or state they closed over, and the reducers take any payload.     *)

\* TextInput onChangeText={setTitle}
onChangeText(s) ==
    /\ title' = s
    /\ last' = "onChangeText"
    /\ UNCHANGED <<todos, ui, now, timers>>

\* TodosCard.addNewTodo, from the Add button or onSubmitEditing
addNewTodo ==
    /\ last' = "addNewTodo"
    /\ IF Trim(title) = <<>>
       THEN UNCHANGED <<todos, ui, title, now, timers>>
       ELSE /\ Len(todos.items) < MaxAdds
            /\ Len(timers) < MaxAdds
            /\ now + HideDelay <= Horizon
            /\ todos' = addTodo(todos, Trim(title), now)
            /\ title' = <<>>
            /\ ui' = showAddBanner(ui)
            /\ timers' = setTimeout(timers, now, HideDelay)
            /\ UNCHANGED now

\* Button onPress={() => dispatch(toggleTodo(item.id))}
pressToggle(id) ==
    /\ todos' = toggleTodo(todos, id)
    /\ last' = "toggleTodo"
    /\ UNCHANGED <<ui, title, now, timers>>

\* Button onPress={() => dispatch(removeTodo(item.id))}
pressRemove(id) ==
    /\ todos' = removeTodo(todos, id)
    /\ last' = "removeTodo"
    /\ UNCHANGED <<ui, title, now, timers>>

\* Button onPress={() => dispatch(clearTodos())}
pressClearAll ==
    /\ todos' = clearTodos(todos)
    /\ last' = "clearTodos"
    /\ UNCHANGED <<ui, title, now, timers>>

\* Switch onValueChange={() => dispatch(toggleDarkMode())}
DarkModeSwitch ==
    /\ ui' = toggleDarkMode(ui)
    /\ last' = "toggleDarkMode"
    /\ UNCHANGED <<todos, title, now, timers>>

\* Banner action "Got it": dispatch(dismissBanner())
pressGotIt ==
    /\ ui' = dismissBanner(ui)
    /\ last' = "dismissBanner"
    /\ UNCHANGED <<todos, title, now, timers>>

\* the callback of the earliest pending timer runs once its delay has passed
timerFired ==
    /\ timers # <<>>
    /\ Head(timers) <= now
    /\ ui' = hideAddBanner(ui)
    /\ timers' = Tail(timers)
    /\ last' = "hideAddBanner"
    /\ UNCHANGED <<todos, title, now>>

\* time passes; the clock is observed every HideDelay milliseconds
Tick ==
    /\ now < Horizon
    /\ now' = now + HideDelay
    /\ last' = "tick"
    /\ UNCHANGED <<todos, ui, title, timers>>

Next ==
    \/ \E s \in Inputs : onChangeText(s)
    \/ addNewTodo
    \/ \E id \in Ids : pressToggle(id)
    \/ \E id \in Ids : pressRemove(id)
    \/ pressClearAll
    \/ DarkModeSwitch
    \/ pressGotIt
    \/ timerFired
    \/ Tick

Spec == Init /\ [][Next]_vars

\* every scheduled timer eventually fires: time passes and due callbacks run
FairSpec == Spec /\ WF_vars(Tick) /\ WF_vars(timerFired)

(* ------------------------------ properties ---------------------------- *)

items == todos.items

\* s is empty or holds white space only
IsBlank(s) == \A i \in DOMAIN s : s[i] \in WhiteSpace

\* t is s without the white space at its two ends
TrimmedOf(t, s) ==
    \E i, j \in 0..Len(s) :
        /\ i + j <= Len(s)
        /\ \A k \in 1..i : s[k] \in WhiteSpace
        /\ \A k \in (Len(s) - j + 1)..Len(s) : s[k] \in WhiteSpace
        /\ t = SubSeq(s, i + 1, Len(s) - j)
        /\ t # <<>> => (t[1] \notin WhiteSpace /\ t[Len(t)] \notin WhiteSpace)

\* the step is a run of addNewTodo on a text that is not blank
AddSucceeded == last' = "addNewTodo" /\ ~IsBlank(title)
\* the step is a run of addNewTodo on a blank text
AddRejected == last' = "addNewTodo" /\ IsBlank(title)

\* items without its i-th element
Without(seq, i) == SubSeq(seq, 1, i - 1) \o SubSeq(seq, i + 1, Len(seq))

\* C1: in every reachable state no two tasks of the collection have the same
\* id, two adds within one value of the clock included.
C1_UniqueIds ==
    \A i, j \in DOMAIN items : i # j => items[i].id # items[j].id

\* C2: submitting an empty or white-space-only text through addNewTodo changes
\* nothing: the collection, the ui flags (showAddBanner among them), the input
\* text, and the pending hide timers all stay as they were.
C2_BlankAddChangesNothing ==
    [][AddRejected => UNCHANGED <<todos, ui, title, now, timers>>]_vars

C2_Witness ==
    /\ last = "addNewTodo"
    /\ title = <<" ", "\t">>
    /\ items # <<>>
    /\ ~ui.showAddBanner

\* C3: a successful add makes the collection one longer, puts the new task
\* last with done = FALSE and the trimmed input as its title, and leaves every
\* earlier task as it was and where it was.
C3_AddAppends ==
    [][AddSucceeded =>
        LET n == Len(items)
        IN  /\ Len(todos'.items) = n + 1
            /\ todos'.items[n + 1].done = FALSE
            /\ TrimmedOf(todos'.items[n + 1].title, title)
            /\ todos'.items[n + 1].title # <<>>
            /\ \A i \in 1..n : todos'.items[i] = items[i]]_vars

C3_Witness ==
    /\ last = "addNewTodo"
    /\ Len(items) = 2
    /\ items[1].done /\ items[1].title = <<"a", " ", "b">>
    /\ ~items[2].done /\ items[2].title = <<"a", " ", "b">>
    /\ items[1].id # items[2].id
    /\ title = <<>>

\* C4: toggleTodo(x.id) flips done of the task x itself and leaves every other
\* task as it was, a second toggleTodo(x.id) restores the collection, and
\* toggleTodo of an id no task has leaves the collection as it was.
C4_ToggleFlipsThatTask ==
    [][\A id \in Ids : pressToggle(id) =>
        /\ \A i \in DOMAIN items :
              items[i].id = id => todos'.items = [items EXCEPT ![i].done = ~@]
        /\ (\A i \in DOMAIN items : items[i].id # id) => todos' = todos
        /\ toggleTodo(todos', id) = todos]_vars

\* C5: removeTodo(x.id) removes the task x and only x, the others keeping
\* their order, and removeTodo of an id no task has leaves the collection as
\* it was.
C5_RemoveOnlyThatTask ==
    [][\A id \in Ids : pressRemove(id) =>
        /\ \A i \in DOMAIN items :
              items[i].id = id => todos'.items = Without(items, i)
        /\ (\A i \in DOMAIN items : items[i].id # id) => todos' = todos]_vars

\* C6: a successful add shows the added-banner in the same step; once shown,
\* the banner is eventually hidden (every scheduled timer fires); and a hidden
\* banner stays hidden until the next successful add.
C6_BannerShownThenHidden ==
    /\ [][AddSucceeded => ui'.showAddBanner]_vars
    /\ (ui.showAddBanner ~> ~ui.showAddBanner)
    /\ [][(~ui.showAddBanner /\ ui'.showAddBanner) => AddSucceeded]_vars

C6_Witness ==
    /\ last = "hideAddBanner"
    /\ ~ui.showAddBanner
    /\ timers = <<>>
    /\ Len(items) = 1

\* C7: hide timers are never cancelled or debounced: a successful add keeps
\* every pending timer and appends its own, due HideDelay later; a timer
\* leaves the queue only by firing; and every firing hides the banner, other
\* timers pending or not.
C7_TimersNeverCancelled ==
    [][ /\ AddSucceeded => timers' = Append(timers, now + HideDelay)
        /\ last' = "hideAddBanner" =>
              (timers # <<>> /\ timers' = Tail(timers) /\ ~ui'.showAddBanner)
        /\ (~AddSucceeded /\ last' # "hideAddBanner") => timers' = timers ]_vars

\* the stale timer of a first add has hidden the banner of a second add whose
\* own timer is still pending
C7_Witness ==
    /\ last = "hideAddBanner"
    /\ ~ui.showAddBanner
    /\ timers # <<>>

\* C8: showAddBanner starts FALSE, turns TRUE only in a successful add, turns
\* FALSE only when a hide timer fires, and is left alone by toggleTodo,
\* removeTodo, clearTodos, toggleDarkMode, dismissBanner and a rejected add.
C8_AddBannerTransitions ==
    /\ ui.showAddBanner = FALSE
    /\ [][ /\ (~ui.showAddBanner /\ ui'.showAddBanner) => AddSucceeded
           /\ (ui.showAddBanner /\ ~ui'.showAddBanner) => last' = "hideAddBanner"
           /\ last' \in {"toggleTodo", "removeTodo", "clearTodos",
                         "toggleDarkMode", "dismissBanner"}
                 => ui'.showAddBanner = ui.showAddBanner
           /\ AddRejected => ui'.showAddBanner = ui.showAddBanner ]_vars

\* the info banner was dismissed while the added-banner of an add made after
\* an earlier hide was showing
C8_Witness ==
    /\ last = "dismissBanner"
    /\ ui.showAddBanner
    /\ timers = <<2 * HideDelay>>

\* C9: showBanner is TRUE until the first dismissBanner and FALSE in every
\* state from then on, whatever actions follow.
C9_DismissIsPermanent ==
    /\ ui.showBanner = TRUE
    /\ [][ui'.showBanner = (ui.showBanner /\ last' # "dismissBanner")]_vars

C9_Witness ==
    /\ ~ui.showBanner
    /\ last = "hideAddBanner"
    /\ ui.darkMode
    /\ items # <<>>

\* C10: whenever the added-banner is showing a hide timer is pending; with no
\* hide timer pending the banner is hidden.
C10_ShownBannerHasPendingTimer ==
    ui.showAddBanner => Len(timers) > 0

C10_Witness ==
    /\ ui.showAddBanner
    /\ Len(timers) = 1
    /\ now = Head(timers)

====
